---- MODULE Spec2Model ----
(***************************************************************************)
(* A model of the deterministic finite-state machine engine of             *)
(* src/src/dfsm: the definition (FSMModel), its validation                 *)
(* (FSMModel.validate_transitions), the construction of the engine         *)
(* (FSM.__init__) and the engine's operations (FSM.transitions,            *)
(* FSM._is_valid_state, FSM._is_valid_input, FSM.get_output, FSM.run).     *)
(*                                                                         *)
(* Python values are modelled as follows.  A str is a TLA+ string.  The    *)
(* value None, where a str or an output may stand, is the string None      *)
(* below (no state, symbol or output of the model is that string).  An     *)
(* Optional set or dict is a sequence: <<>> is None and <<v>> is the       *)
(* container v, so that None and an empty container stay different, as     *)
(* they are in Python.  A dict is a function, its keys the DOMAIN; a key   *)
(* of the transition map is a pair <<state, symbol>>.                      *)
(***************************************************************************)
EXTENDS Naturals, Sequences, FiniteSets, TLC

VARIABLES
    fsm,             \* the engine object: NoObject, or the fields FSM.__init__ assigned
    raised_init,     \* the error FSM(...) raised, or None
    args,            \* the arguments FSM(...) was called with, or None before the call
    pc,              \* where the caller is: "idle", in run's "loop", "returned", "raised"
    call,            \* the operation in progress or last finished, with its arguments
    current_state,   \* run's local current_state
    outputs,         \* run's local outputs
    idx,             \* position of the for loop in input_sequence (1-based, next to read)
    ret,             \* the value the last operation returned
    err,             \* the error the last operation raised
    memo,            \* a call of run the caller remembers with its outcome, or None
    other,           \* a second thread: its pc, call, run's locals, ret and err
    init             \* FSM.__init__ in progress: its pc, its fsm_model, the fields of self

vars == <<fsm, raised_init, args, pc, call, current_state, outputs, idx, ret, err, memo,
          other, init>>

-----------------------------------------------------------------------------
(* Bounds and the finite sets the inputs are drawn from.                   *)

\* Longest input sequence handed to run.
MaxLen == 2

None == "None"

StateUniverse == {"Locked", "Unlocked"}
SymbolUniverse == {"Coin", "Push"}

\* Optional containers.
NoneC == <<>>
Some(v) == <<v>>

\* The outputs a caller attaches to states (Moore) and to transitions (Mealy).
MooreLabel == [s \in StateUniverse |-> IF s = "Locked" THEN "Red" ELSE "Green"]
MealyLabel ==
    [p \in StateUniverse \X SymbolUniverse |->
        IF p[1] = "Locked"
        THEN (IF p[2] = "Push" THEN "Beep" ELSE "Click")
        ELSE (IF p[2] = "Push" THEN "Clack" ELSE "Buzz")]

Restrict(f, D) == [x \in D |-> f[x]]

\* Every partial map from D to R: the dicts with keys in D and values in R.
PartialMaps(D, R) == UNION {[K -> R] : K \in SUBSET D}

StateOutputChoices ==
    {NoneC} \cup {Some(Restrict(MooreLabel, D)) : D \in SUBSET StateUniverse}

TransitionOutputChoices ==
    {NoneC} \cup
    {Some(Restrict(MealyLabel, D)) :
        D \in {{}, {<<"Locked", "Coin">>}, StateUniverse \X SymbolUniverse}}

FinalStateChoices == {NoneC, Some({"Unlocked"})}

\* The transition map of the lock/unlock machine: a coin unlocks, a push locks.
LockTable ==
    [p \in StateUniverse \X SymbolUniverse |->
        IF p[2] = "Coin" THEN "Unlocked" ELSE "Locked"]

\* Arguments for the lock/unlock machine and for the machines that lack some
\* of its transitions, with one or both symbols, Moore outputs and a partial
\* Mealy map.
LockDefinitions ==
    [states : {StateUniverse},
     alphabet : {SymbolUniverse, {"Coin"}},
     transition_functions :
        {Restrict(LockTable, K) : K \in SUBSET (StateUniverse \X SymbolUniverse)},
     initial_state : {"Locked"},
     final_states : {NoneC},
     state_outputs : {Some(MooreLabel)},
     transition_outputs : {NoneC, Some(Restrict(MealyLabel, {<<"Locked", "Coin">>}))}]

\* Arguments for two-state machines started in Locked, with every partial
\* transition map, one or both symbols, Moore outputs and a partial Mealy map.
TwoStateDefinitions ==
    [states : {StateUniverse},
     alphabet : {SymbolUniverse, {"Coin"}},
     transition_functions : PartialMaps(StateUniverse \X SymbolUniverse, StateUniverse),
     initial_state : {"Locked"},
     final_states : {NoneC},
     state_outputs : {Some(MooreLabel)},
     transition_outputs : {NoneC, Some(Restrict(MealyLabel, {<<"Locked", "Coin">>}))}]

\* The arguments a caller may hand to FSM(...).
RawDefinitions ==
    [states : SUBSET StateUniverse,
     alphabet : SUBSET SymbolUniverse,
     transition_functions : PartialMaps(StateUniverse \X SymbolUniverse, StateUniverse),
     initial_state : StateUniverse,
     final_states : FinalStateChoices,
     state_outputs : StateOutputChoices,
     transition_outputs : TransitionOutputChoices]

\* A wider choice of arguments for FSM(...), for the construction alone: the
\* empty string is among the strings a caller may use as a state, final
\* states are any set, and the output maps have keys of every kind.
WideStateUniverse == {"", "Locked"}

WideDefinitions ==
    [states : SUBSET WideStateUniverse,
     alphabet : SUBSET SymbolUniverse,
     transition_functions :
        PartialMaps(WideStateUniverse \X SymbolUniverse, WideStateUniverse),
     initial_state : WideStateUniverse,
     final_states : {NoneC} \cup {Some(S) : S \in SUBSET WideStateUniverse},
     state_outputs : {NoneC} \cup {Some(f) : f \in PartialMaps(WideStateUniverse, {"Red"})},
     transition_outputs :
        {NoneC} \cup
        {Some([key \in D |-> "Beep"]) :
            D \in {{}, {<<"", "Coin">>}, {<<"Locked", "Push">>},
                   WideStateUniverse \X SymbolUniverse}}]

\* The input sequences handed to run: lists of symbols, legal or not.
BoundedSeq(S, n) == UNION {[1..k -> S] : k \in 0..n}
InputSequences == BoundedSeq(SymbolUniverse, MaxLen)

-----------------------------------------------------------------------------
(* Python truthiness of an Optional container: None and the empty          *)
(* container are both false.                                               *)

TruthySet(o) == o # NoneC /\ o[1] # {}
TruthyDict(o) == o # NoneC /\ DOMAIN o[1] # {}

\* dict.get(key): the value, or None when the key is missing.
DictGet(d, k) == IF k \in DOMAIN d THEN d[k] ELSE None

-----------------------------------------------------------------------------
(* FSMModel: pydantic's field constraints and validate_transitions.        *)

\* A variant of FieldErrors without the constraint on alphabet.
FieldErrors_no_alphabet_constraint(d) ==
    (IF d.states = {} THEN {"states"} ELSE {})
    \cup (IF d.initial_state = "" THEN {"initial_state"} ELSE {})

\* The fields whose min_length=1 constraint the arguments break.
FieldErrors(d) ==
    (IF d.states = {} THEN {"states"} ELSE {})
    \cup (IF d.alphabet = {} THEN {"alphabet"} ELSE {})
    \cup (IF d.initial_state = "" THEN {"initial_state"} ELSE {})

\* A variant of EntryError that does not check the next state.
EntryError_no_next_state_check(d, key) ==
    IF key[1] \notin d.states
    THEN <<"State in transition not in states set", key[1]>>
    ELSE IF key[2] \notin d.alphabet
    THEN <<"Symbol not in alphabet", key[2]>>
    ELSE <<None>>

\* A variant of EntryError that checks neither the source state nor the symbol.
EntryError_no_key_check(d, key) ==
    IF d.transition_functions[key] \notin d.states
    THEN <<"Next state not in states set", d.transition_functions[key]>>
    ELSE <<None>>

\* The error one transition entry raises, or None: source state, then next
\* state, then symbol.
EntryError(d, key) ==
    IF key[1] \notin d.states
    THEN <<"State in transition not in states set", key[1]>>
    ELSE IF d.transition_functions[key] \notin d.states
    THEN <<"Next state not in states set", d.transition_functions[key]>>
    ELSE IF key[2] \notin d.alphabet
    THEN <<"Symbol not in alphabet", key[2]>>
    ELSE <<None>>

TransitionErrors(d) ==
    {EntryError(d, key) : key \in DOMAIN d.transition_functions} \ {<<None>>}

\* A variant of InitialStateErrors that accepts every initial state.
InitialStateErrors_unchecked(d) == {}

\* if self.initial_state not in self.states: raise
InitialStateErrors(d) ==
    IF d.initial_state \notin d.states
    THEN {<<"Initial state not in states set", d.initial_state>>}
    ELSE {}

\* A variant of FinalStateErrors that names any final state, offending or not.
FinalStateErrors_names_any(d) ==
    IF TruthySet(d.final_states) /\ d.final_states[1] \ d.states # {}
    THEN {<<"Final state not in states set", s>> : s \in d.final_states[1]}
    ELSE {}

\* if self.final_states: for state in self.final_states: raise when unknown
FinalStateErrors(d) ==
    IF TruthySet(d.final_states)
    THEN {<<"Final state not in states set", s>> : s \in d.final_states[1] \ d.states}
    ELSE {}

StateOutputErrors(d) ==
    IF TruthyDict(d.state_outputs)
    THEN {<<"State in state_outputs not in states set", s>> :
             s \in (DOMAIN d.state_outputs[1]) \ d.states}
    ELSE {}

TransitionOutputKeyError(d, key) ==
    IF key[1] \notin d.states
    THEN <<"State in transition_outputs not in states set", key[1]>>
    ELSE IF key[2] \notin d.alphabet
    THEN <<"Symbol in transition_outputs not in alphabet", key[2]>>
    ELSE <<None>>

TransitionOutputErrors(d) ==
    IF TruthyDict(d.transition_outputs)
    THEN {TransitionOutputKeyError(d, key) : key \in DOMAIN d.transition_outputs[1]}
            \ {<<None>>}
    ELSE {}

\* A variant of validate_transitions that checks the initial state before the
\* transition entries.
validate_transitions_initial_state_first(d) ==
    IF InitialStateErrors(d) # {} THEN InitialStateErrors(d)
    ELSE IF TransitionErrors(d) # {} THEN TransitionErrors(d)
    ELSE IF FinalStateErrors(d) # {} THEN FinalStateErrors(d)
    ELSE IF StateOutputErrors(d) # {} THEN StateOutputErrors(d)
    ELSE TransitionOutputErrors(d)

\* The errors validate_transitions may raise: those of the first check, in
\* the order of the code, that finds any (which entry of a dict or a set is
\* met first is the caller's insertion order, so any of them may be).  The
\* empty set when the definition is valid.
validate_transitions(d) ==
    IF TransitionErrors(d) # {} THEN TransitionErrors(d)
    ELSE IF InitialStateErrors(d) # {} THEN InitialStateErrors(d)
    ELSE IF FinalStateErrors(d) # {} THEN FinalStateErrors(d)
    ELSE IF StateOutputErrors(d) # {} THEN StateOutputErrors(d)
    ELSE TransitionOutputErrors(d)

-----------------------------------------------------------------------------
(* FSM: the engine.                                                        *)

NoObject == [exists |-> FALSE]

\* The object FSM.__init__ leaves when nothing was raised.
NewFSM(d) ==
    [exists |-> TRUE,
     states |-> d.states,
     alphabet |-> d.alphabet,
     transition_functions |-> d.transition_functions,
     initial_state |-> d.initial_state,
     final_states |-> d.final_states,
     state_outputs |-> d.state_outputs,
     transition_outputs |-> d.transition_outputs]

\* FSM.transitions: whether the lookup raises, and what it returns.
transitions_raises(self, state, input_symbol) ==
    <<state, input_symbol>> \notin DOMAIN self.transition_functions

\* A variant of transitions that returns the state it was given.
transitions_stay(self, state, input_symbol) == state

\* return self.transition_functions[(state, input_symbol)]

transitions(self, state, input_symbol) ==
    self.transition_functions[<<state, input_symbol>>]

\* A variant of TransitionNotDefined that names the pair the wrong way round.
TransitionNotDefined_swapped(state, input_symbol) ==
    <<"Transition not defined", input_symbol, state>>

\* raise ValueError(f"Transition ({state}, {input_symbol}) not defined")
TransitionNotDefined(state, input_symbol) ==
    <<"Transition not defined", state, input_symbol>>

_is_valid_state(self, state) == state \in self.states

\* A variant of _is_valid_input that accepts every symbol.
_is_valid_input_any(self, input_symbol) == TRUE

_is_valid_input(self, input_symbol) == input_symbol \in self.alphabet

\* A variant of get_output in which a symbol selects the Mealy outputs even
\* when none are configured.
get_output_symbol_means_mealy(self, state, input_symbol) ==
    IF input_symbol # None
    THEN (IF TruthyDict(self.transition_outputs)
          THEN DictGet(self.transition_outputs[1], <<state, input_symbol>>)
          ELSE None)
    ELSE IF TruthyDict(self.state_outputs)
    THEN DictGet(self.state_outputs[1], state)
    ELSE None

\* A variant of get_output whose last resort is the state, not None.
get_output_default_state(self, state, input_symbol) ==
    IF TruthyDict(self.transition_outputs) /\ input_symbol # None
    THEN DictGet(self.transition_outputs[1], <<state, input_symbol>>)
    ELSE IF TruthyDict(self.state_outputs)
    THEN DictGet(self.state_outputs[1], state)
    ELSE state

\* FSM.get_output; input_symbol is None when the caller gives none.
get_output(self, state, input_symbol) ==
    IF TruthyDict(self.transition_outputs) /\ input_symbol # None
    THEN DictGet(self.transition_outputs[1], <<state, input_symbol>>)
    ELSE IF TruthyDict(self.state_outputs)
    THEN DictGet(self.state_outputs[1], state)
    ELSE None

-----------------------------------------------------------------------------
(* The actions.                                                            *)

NoCall == [op |-> "none"]

\* No attribute of self is assigned.
NoFields == [f \in {} |-> None]

\* FSM.__init__ was not entered.
NoInit == [pc |-> "none", fsm_model |-> NoneC, self |-> NoFields]

\* The attributes FSM.__init__ assigns to self, in the order of its statements.
FieldOrder ==
    <<"states", "alphabet", "transition_functions", "initial_state", "final_states",
      "state_outputs", "transition_outputs">>

\* A thread that has called nothing yet.
IdleThread ==
    [pc |-> "idle", call |-> NoCall, during |-> FALSE, current_state |-> None,
     outputs |-> <<>>, idx |-> 0, ret |-> <<None>>, err |-> <<None>>]

Init ==
    /\ fsm = NoObject
    /\ raised_init = <<None>>
    /\ args = NoneC
    /\ pc = "idle"
    /\ call = NoCall
    /\ current_state = None
    /\ outputs = <<>>
    /\ idx = 0
    /\ ret = <<None>>
    /\ err = <<None>>
    /\ memo = NoneC
    /\ other = IdleThread
    /\ init = NoInit

\* fsm = FSM(**d): pydantic's field validation, validate_transitions, and
\* only then the assignment of the fields.
ConstructFrom(definitions) ==
    /\ ~fsm.exists
    /\ args = NoneC
    /\ \E d \in definitions :
        /\ args' = Some(d)
        /\ IF FieldErrors(d) # {}
           THEN /\ raised_init' = <<"ValidationError", FieldErrors(d)>>
                /\ fsm' = fsm
           ELSE IF validate_transitions(d) # {}
           THEN /\ \E e \in validate_transitions(d) : raised_init' = e
                /\ fsm' = fsm
           ELSE /\ fsm' = NewFSM(d)
                /\ raised_init' = raised_init
    /\ UNCHANGED <<init, memo, other, pc, call, current_state, outputs, idx, ret, err>>

Construct == ConstructFrom(RawDefinitions)

\* The same call with arguments drawn from WideDefinitions.
ConstructWide == ConstructFrom(WideDefinitions)

\* run's locals end with its frame, on return and on raise.
DropLocals ==
    /\ current_state' = None
    /\ outputs' = <<>>
    /\ idx' = 0

\* The caller may start an operation when none is in progress.
CanCall == fsm.exists /\ pc \in {"idle", "returned", "raised"}

\* The same call with arguments drawn from LockDefinitions.
ConstructLock == ConstructFrom(LockDefinitions)

\* The same call with arguments drawn from TwoStateDefinitions.
ConstructTwoState == ConstructFrom(TwoStateDefinitions)

\* A variant of RunCall that resumes from the state the previous run returned.
RunCall_resumes ==
    /\ CanCall
    /\ \E input_sequence \in InputSequences, collect_outputs \in BOOLEAN :
        call' = [op |-> "run", input_sequence |-> input_sequence,
                 collect_outputs |-> collect_outputs]
    /\ current_state' = IF call.op = "run" /\ pc = "returned"
                        THEN ret[1]
                        ELSE fsm.initial_state
    /\ outputs' = <<>>
    /\ idx' = 1
    /\ pc' = "loop"
    /\ ret' = <<None>>
    /\ err' = <<None>>
    /\ UNCHANGED <<fsm, raised_init, args, init, memo, other>>

\* fsm.run(input_sequence, collect_outputs) up to the head of the for loop.
RunCall ==
    /\ CanCall
    /\ \E input_sequence \in InputSequences, collect_outputs \in BOOLEAN :
        call' = [op |-> "run", input_sequence |-> input_sequence,
                 collect_outputs |-> collect_outputs]
    /\ current_state' = fsm.initial_state
    /\ outputs' = <<>>
    /\ idx' = 1
    /\ pc' = "loop"
    /\ ret' = <<None>>
    /\ err' = <<None>>
    /\ UNCHANGED <<fsm, raised_init, args, init, memo, other>>

\* A variant of run_step_error that looks the transition up first.
run_step_error_lookup_first(self, state, input_symbol) ==
    IF transitions_raises(self, state, input_symbol)
    THEN TransitionNotDefined(state, input_symbol)
    ELSE IF ~_is_valid_input(self, input_symbol)
    THEN <<"Invalid input symbol", input_symbol>>
    ELSE IF ~_is_valid_state(self, state)
    THEN <<"Invalid state", state>>
    ELSE <<None>>

\* What one iteration raises, or None: the alphabet check, the state check,
\* and then the lookup of self.transitions.
run_step_error(self, state, input_symbol) ==
    IF ~_is_valid_input(self, input_symbol)
    THEN <<"Invalid input symbol", input_symbol>>
    ELSE IF ~_is_valid_state(self, state)
    THEN <<"Invalid state", state>>
    ELSE IF transitions_raises(self, state, input_symbol)
    THEN TransitionNotDefined(state, input_symbol)
    ELSE <<None>>

\* A variant of run_sample that samples the state the step arrives in.
run_sample_after_move(self, state, input_symbol) ==
    get_output(self, transitions(self, state, input_symbol), input_symbol)

\* output = self.get_output(current_state, input_symbol), before the move.
run_sample(self, state, input_symbol) ==
    get_output(self, state, input_symbol)

\* A variant of run_collect that keeps only the outputs that are not None.
run_collect_skip_none(collect_outputs, outs, output) ==
    IF collect_outputs /\ output # None THEN Append(outs, output) ELSE outs

\* if collect_outputs: outputs.append(output)
run_collect(collect_outputs, outs, output) ==
    IF collect_outputs THEN Append(outs, output) ELSE outs

\* A variant of RunIter that skips a symbol outside the alphabet and goes on.
RunIter_skip_invalid ==
    /\ pc = "loop"
    /\ idx <= Len(call.input_sequence)
    /\ LET input_symbol == call.input_sequence[idx]
           error == run_step_error(fsm, current_state, input_symbol)
       IN
        IF ~_is_valid_input(fsm, input_symbol)
        THEN /\ idx' = idx + 1
             /\ UNCHANGED <<pc, err, outputs, current_state>>
        ELSE IF error # <<None>>
        THEN /\ err' = error
             /\ pc' = "raised"
             /\ DropLocals
        ELSE /\ outputs' = run_collect(call.collect_outputs, outputs,
                                       run_sample(fsm, current_state, input_symbol))
             /\ current_state' = transitions(fsm, current_state, input_symbol)
             /\ idx' = idx + 1
             /\ UNCHANGED <<pc, err>>
    /\ UNCHANGED <<fsm, raised_init, args, init, memo, other, call, ret>>

\* A variant of RunIter whose move to the next state stands under
\* `if collect_outputs:`.
RunIter_moves_when_collecting ==
    /\ pc = "loop"
    /\ idx <= Len(call.input_sequence)
    /\ LET input_symbol == call.input_sequence[idx]
           error == run_step_error(fsm, current_state, input_symbol)
       IN
        IF error # <<None>>
        THEN /\ err' = error
             /\ pc' = "raised"
             /\ DropLocals
        ELSE /\ outputs' = run_collect(call.collect_outputs, outputs,
                                       run_sample(fsm, current_state, input_symbol))
             /\ current_state' = IF call.collect_outputs
                                 THEN transitions(fsm, current_state, input_symbol)
                                 ELSE current_state
             /\ idx' = idx + 1
             /\ UNCHANGED <<pc, err>>
    /\ UNCHANGED <<fsm, raised_init, args, init, memo, other, call, ret>>

\* A variant of RunIter that reads a symbol without a transition again
\* instead of raising.
RunIter_retries_undefined ==
    /\ pc = "loop"
    /\ idx <= Len(call.input_sequence)
    /\ LET input_symbol == call.input_sequence[idx]
           error == run_step_error(fsm, current_state, input_symbol)
       IN
        IF error # <<None>> /\ error[1] = "Transition not defined"
        THEN /\ outputs' = run_collect(call.collect_outputs, outputs, None)
             /\ UNCHANGED <<pc, err, current_state, idx>>
        ELSE IF error # <<None>>
        THEN /\ err' = error
             /\ pc' = "raised"
             /\ DropLocals
        ELSE /\ outputs' = run_collect(call.collect_outputs, outputs,
                                       run_sample(fsm, current_state, input_symbol))
             /\ current_state' = transitions(fsm, current_state, input_symbol)
             /\ idx' = idx + 1
             /\ UNCHANGED <<pc, err>>
    /\ UNCHANGED <<fsm, raised_init, args, init, memo, other, call, ret>>

\* One iteration of run's for loop.
RunIter ==
    /\ pc = "loop"
    /\ idx <= Len(call.input_sequence)
    /\ LET input_symbol == call.input_sequence[idx]
           error == run_step_error(fsm, current_state, input_symbol)
       IN
        IF error # <<None>>
        THEN /\ err' = error
             /\ pc' = "raised"
             /\ DropLocals
        ELSE /\ outputs' = run_collect(call.collect_outputs, outputs,
                                       run_sample(fsm, current_state, input_symbol))
             /\ current_state' = transitions(fsm, current_state, input_symbol)
             /\ idx' = idx + 1
             /\ UNCHANGED <<pc, err>>
    /\ UNCHANGED <<fsm, raised_init, args, init, memo, other, call, ret>>

\* A variant of run_trailing_sample that passes the loop's last input_symbol.
run_trailing_sample_last_symbol(self, state) ==
    IF idx > 1
    THEN get_output(self, state, call.input_sequence[idx - 1])
    ELSE get_output(self, state, None)

\* self.get_output(current_state) after the loop: no symbol.
run_trailing_sample(self, state) == get_output(self, state, None)

\* A variant of run_result that appends no trailing sample.
run_result_no_trailing(self, collect_outputs, state, outs) ==
    IF collect_outputs THEN <<state, outs>> ELSE <<state>>

\* A variant of run_result that returns None when final states are given and
\* the run does not end in one.
run_result_accepting(self, collect_outputs, state, outs) ==
    IF TruthySet(self.final_states) /\ state \notin self.final_states[1]
    THEN <<None>>
    ELSE IF collect_outputs
    THEN <<state, Append(outs, run_trailing_sample(self, state))>>
    ELSE <<state>>

\* What run returns: the final state, or the pair of it and the trace with
\* the trailing sample appended.
run_result(self, collect_outputs, state, outs) ==
    IF collect_outputs
    THEN <<state, Append(outs, run_trailing_sample(self, state))>>
    ELSE <<state>>

\* A variant of RunReturn for an engine that keeps the state it arrived in
\* as its initial_state.
RunReturn_keeps_state ==
    /\ pc = "loop"
    /\ idx > Len(call.input_sequence)
    /\ ret' = run_result(fsm, call.collect_outputs, current_state, outputs)
    /\ pc' = "returned"
    /\ DropLocals
    /\ fsm' = [fsm EXCEPT !.initial_state = current_state]
    /\ UNCHANGED <<raised_init, args, init, memo, other, call, err>>

\* The end of run, after the loop.
RunReturn ==
    /\ pc = "loop"
    /\ idx > Len(call.input_sequence)
    /\ ret' = run_result(fsm, call.collect_outputs, current_state, outputs)
    /\ pc' = "returned"
    /\ DropLocals
    /\ UNCHANGED <<fsm, raised_init, args, init, memo, other, call, err>>

\* fsm.get_output(state) or fsm.get_output(state, input_symbol).
GetOutputCall ==
    /\ CanCall
    /\ \E state \in StateUniverse, input_symbol \in SymbolUniverse \cup {None} :
        /\ call' = [op |-> "get_output", state |-> state, input_symbol |-> input_symbol]
        /\ ret' = <<get_output(fsm, state, input_symbol)>>
    /\ pc' = "returned"
    /\ err' = <<None>>
    /\ UNCHANGED <<fsm, raised_init, args, init, memo, other, current_state, outputs, idx>>

\* fsm.transitions(state, input_symbol).
TransitionsCall ==
    /\ CanCall
    /\ \E state \in StateUniverse, input_symbol \in SymbolUniverse :
        /\ call' = [op |-> "transitions", state |-> state, input_symbol |-> input_symbol]
        /\ IF transitions_raises(fsm, state, input_symbol)
           THEN /\ err' = TransitionNotDefined(state, input_symbol)
                /\ ret' = <<None>>
                /\ pc' = "raised"
           ELSE /\ ret' = <<transitions(fsm, state, input_symbol)>>
                /\ err' = <<None>>
                /\ pc' = "returned"
    /\ UNCHANGED <<fsm, raised_init, args, init, memo, other, current_state, outputs, idx>>

\* fsm._is_valid_state(state) and fsm._is_valid_input(input_symbol).
IsValidCall ==
    /\ CanCall
    /\ \/ \E state \in StateUniverse :
            /\ call' = [op |-> "_is_valid_state", state |-> state]
            /\ ret' = <<_is_valid_state(fsm, state)>>
       \/ \E input_symbol \in SymbolUniverse :
            /\ call' = [op |-> "_is_valid_input", input_symbol |-> input_symbol]
            /\ ret' = <<_is_valid_input(fsm, input_symbol)>>
    /\ pc' = "returned"
    /\ err' = <<None>>
    /\ UNCHANGED <<fsm, raised_init, args, init, memo, other, current_state, outputs, idx>>

Next ==
    \/ Construct
    \/ RunCall
    \/ RunIter
    \/ RunReturn
    \/ GetOutputCall
    \/ TransitionsCall
    \/ IsValidCall

Spec == Init /\ [][Next]_vars

\* The construction alone, over the wider arguments.
NextConstruct == ConstructWide

SpecConstruct == Init /\ [][NextConstruct]_vars

\* result = fsm.run(...): the caller keeps the call it made and its outcome.
Remember ==
    /\ call.op = "run"
    /\ pc \in {"returned", "raised"}
    /\ memo # Some([call |-> call, pc |-> pc, ret |-> ret, err |-> err])
    /\ memo' = Some([call |-> call, pc |-> pc, ret |-> ret, err |-> err])
    /\ UNCHANGED <<fsm, raised_init, args, init, other, pc, call, current_state, outputs, idx, ret, err>>

\* fsm.run(input_sequence, collect_outputs) in the second thread, up to the
\* head of the for loop.  during records whether the first thread was inside
\* its own loop at that moment.
RunCallOther ==
    /\ fsm.exists
    /\ other.pc \in {"idle", "returned", "raised"}
    /\ \E input_sequence \in InputSequences, collect_outputs \in BOOLEAN :
        other' = [pc |-> "loop",
                  call |-> [op |-> "run", input_sequence |-> input_sequence,
                            collect_outputs |-> collect_outputs],
                  during |-> (pc = "loop"),
                  current_state |-> fsm.initial_state,
                  outputs |-> <<>>,
                  idx |-> 1,
                  ret |-> <<None>>,
                  err |-> <<None>>]
    /\ UNCHANGED <<fsm, raised_init, args, init, memo, pc, call, current_state, outputs, idx,
                   ret, err>>

\* The second thread after one iteration of its loop over input_symbol.
OtherAfterIter(input_symbol) ==
    LET error == run_step_error(fsm, other.current_state, input_symbol)
    IN IF error # <<None>>
       THEN [other EXCEPT !.err = error, !.pc = "raised",
                          !.current_state = None, !.outputs = <<>>, !.idx = 0]
       ELSE [other EXCEPT
                !.outputs = run_collect(other.call.collect_outputs, other.outputs,
                                        run_sample(fsm, other.current_state, input_symbol)),
                !.current_state = transitions(fsm, other.current_state, input_symbol),
                !.idx = other.idx + 1]

\* A variant of RunIterOther where current_state is one place that both
\* threads write and read.
RunIterOther_shared_current_state ==
    /\ other.pc = "loop"
    /\ other.idx <= Len(other.call.input_sequence)
    /\ other' = OtherAfterIter(other.call.input_sequence[other.idx])
    /\ current_state' = IF pc = "loop" /\ other'.pc = "loop"
                        THEN other'.current_state
                        ELSE current_state
    /\ UNCHANGED <<fsm, raised_init, args, init, memo, pc, call, outputs, idx, ret, err>>

\* One iteration of run's for loop in the second thread.
RunIterOther ==
    /\ other.pc = "loop"
    /\ other.idx <= Len(other.call.input_sequence)
    /\ other' = OtherAfterIter(other.call.input_sequence[other.idx])
    /\ UNCHANGED <<fsm, raised_init, args, init, memo, pc, call, current_state, outputs, idx,
                   ret, err>>

\* The end of run in the second thread, after the loop.
RunReturnOther ==
    /\ other.pc = "loop"
    /\ other.idx > Len(other.call.input_sequence)
    /\ other' = [other EXCEPT
                    !.ret = run_result(fsm, other.call.collect_outputs,
                                       other.current_state, other.outputs),
                    !.pc = "returned",
                    !.current_state = None, !.outputs = <<>>, !.idx = 0]
    /\ UNCHANGED <<fsm, raised_init, args, init, memo, pc, call, current_state, outputs, idx,
                   ret, err>>

\* One engine and two threads that call run on it, their steps interleaved.
NextConcurrent ==
    \/ ConstructLock
    \/ RunCall
    \/ RunIter
    \/ RunReturn
    \/ RunCallOther
    \/ RunIterOther
    \/ RunReturnOther

SpecConcurrent == Init /\ [][NextConcurrent]_vars

\* fsm = FSM(**d) taken statement by statement: the call enters __init__ with
\* a fresh self that has no attribute.
InitCallFrom(definitions) ==
    /\ ~fsm.exists
    /\ args = NoneC
    /\ \E d \in definitions : args' = Some(d)
    /\ init' = [pc |-> "model", fsm_model |-> NoneC, self |-> NoFields]
    /\ UNCHANGED <<fsm, raised_init, memo, other, pc, call, current_state, outputs, idx,
                   ret, err>>

InitCall == InitCallFrom(WideDefinitions)

\* The same call with arguments drawn from RawDefinitions.
InitCallRaw == InitCallFrom(RawDefinitions)

\* fsm_model = FSMModel(...): pydantic's field constraints.
InitModel ==
    /\ init.pc = "model"
    /\ IF FieldErrors(args[1]) # {}
       THEN /\ raised_init' = <<"ValidationError", FieldErrors(args[1])>>
            /\ init' = [init EXCEPT !.pc = "raised"]
       ELSE /\ init' = [init EXCEPT !.pc = "validate", !.fsm_model = args]
            /\ raised_init' = raised_init
    /\ UNCHANGED <<fsm, args, memo, other, pc, call, current_state, outputs, idx, ret, err>>

\* A variant of InitValidate that runs after self.states was assigned.
InitValidate_after_states ==
    /\ init.pc = "validate"
    /\ IF validate_transitions(init.fsm_model[1]) # {}
       THEN /\ \E e \in validate_transitions(init.fsm_model[1]) : raised_init' = e
            /\ init' = [init EXCEPT !.pc = "raised",
                                    !.self = [f \in {"states"} |-> init.fsm_model[1][f]]]
       ELSE /\ init' = [init EXCEPT !.pc = "assign",
                                    !.self = [f \in {"states"} |-> init.fsm_model[1][f]]]
            /\ raised_init' = raised_init
    /\ UNCHANGED <<fsm, args, memo, other, pc, call, current_state, outputs, idx, ret, err>>

\* fsm_model.validate_transitions()
InitValidate ==
    /\ init.pc = "validate"
    /\ IF validate_transitions(init.fsm_model[1]) # {}
       THEN /\ \E e \in validate_transitions(init.fsm_model[1]) : raised_init' = e
            /\ init' = [init EXCEPT !.pc = "raised"]
       ELSE /\ init' = [init EXCEPT !.pc = "assign"]
            /\ raised_init' = raised_init
    /\ UNCHANGED <<fsm, args, memo, other, pc, call, current_state, outputs, idx, ret, err>>

\* self.<field> = fsm_model.<field>, the next of the seven assignments.
InitAssign ==
    /\ init.pc = "assign"
    /\ Cardinality(DOMAIN init.self) < Len(FieldOrder)
    /\ LET assigned == DOMAIN init.self
           field == FieldOrder[Cardinality(assigned) + 1]
       IN init' = [init EXCEPT
                     !.self = [f \in assigned \cup {field} |-> init.fsm_model[1][f]]]
    /\ UNCHANGED <<fsm, raised_init, args, memo, other, pc, call, current_state, outputs,
                   idx, ret, err>>

\* __init__ returns and the caller holds the engine.
InitReturn ==
    /\ init.pc = "assign"
    /\ Cardinality(DOMAIN init.self) = Len(FieldOrder)
    /\ fsm' = [f \in DOMAIN init.self \cup {"exists"} |->
                  IF f = "exists" THEN TRUE ELSE init.self[f]]
    /\ init' = [init EXCEPT !.pc = "done"]
    /\ UNCHANGED <<raised_init, args, memo, other, pc, call, current_state, outputs, idx,
                   ret, err>>

\* The construction statement by statement.
NextInit ==
    \/ InitCall
    \/ InitModel
    \/ InitValidate
    \/ InitAssign
    \/ InitReturn

SpecInit == Init /\ [][NextInit]_vars

\* One engine and a caller of run whose loop, once entered, is carried on:
\* the interpreter executes the next statement of a thread that has one.
NextRun ==
    \/ ConstructLock
    \/ RunCall
    \/ RunIter
    \/ RunReturn

SpecRun ==
    /\ Init
    /\ [][NextRun]_vars
    /\ WF_vars(RunIter)
    /\ WF_vars(RunReturn)

\* The life of an engine: the construction statement by statement and then
\* every operation on what it built.
NextLife ==
    \/ InitCallRaw
    \/ InitModel
    \/ InitValidate
    \/ InitAssign
    \/ InitReturn
    \/ RunCall
    \/ RunIter
    \/ RunReturn
    \/ GetOutputCall
    \/ TransitionsCall
    \/ IsValidCall

SpecLife == Init /\ [][NextLife]_vars

\* One engine, run again and again by a caller that remembers an outcome.
NextRepeat ==
    \/ ConstructTwoState
    \/ RunCall
    \/ RunIter
    \/ RunReturn
    \/ Remember

SpecRepeat == Init /\ [][NextRepeat]_vars

-----------------------------------------------------------------------------
(* The vocabulary of the properties.                                       *)

\* q_n of a run over s: q_0 is the initial state and q_{i+1} is the entry of
\* the transition map for (q_i, s_i); None from the first missing entry on.
RECURSIVE StateAfter(_, _, _)
StateAfter(self, s, n) ==
    IF n = 0
    THEN self.initial_state
    ELSE LET q == StateAfter(self, s, n - 1) IN
         IF <<q, s[n]>> \in DOMAIN self.transition_functions
         THEN self.transition_functions[<<q, s[n]>>]
         ELSE None

\* The first n symbols of s are in the alphabet and every pair met has an entry.
Walkable(self, s, n) ==
    \A i \in 1..n : s[i] \in self.alphabet /\ StateAfter(self, s, i) # None

RunCalled == call.op = "run"
RunDone == RunCalled /\ pc \in {"returned", "raised"}
RunReturned == RunCalled /\ pc = "returned"
GetOutputReturned == call.op = "get_output" /\ pc = "returned"

LockMachine ==
    /\ fsm.exists
    /\ fsm.transition_functions = LockTable
    /\ fsm.initial_state = "Locked"

-----------------------------------------------------------------------------
(* C1.  A run over a sequence s of length N whose symbols are all in the   *)
(* alphabet and whose every visited pair has a transition entry returns    *)
(* q_N, where q_0 is the initial state and q_{i+1} = transitions[(q_i,     *)
(* s_i)]: the loop consumes the symbols in order, one transition each.     *)
C1_RunReturnsFoldedState ==
    /\ (RunCalled /\ pc = "loop" /\ Walkable(fsm, call.input_sequence, idx - 1))
        => current_state = StateAfter(fsm, call.input_sequence, idx - 1)
    /\ (RunDone /\ Walkable(fsm, call.input_sequence, Len(call.input_sequence)))
        => /\ pc = "returned"
           /\ ret[1] = StateAfter(fsm, call.input_sequence, Len(call.input_sequence))

\* The lock/unlock machine has run [Push, Coin] and returned Unlocked.
C1_Witness ==
    /\ LockMachine
    /\ RunReturned
    /\ call.input_sequence = <<"Push", "Coin">>
    /\ ret[1] = "Unlocked"

(* C2.  run([]) fires no transition and returns the initial state; when    *)
(* collecting, it returns the initial state and a trace of one element,    *)
(* the output of the initial state sampled with no symbol.                 *)
C2_EmptyRun ==
    /\ (RunCalled /\ pc = "loop" /\ call.input_sequence = <<>>)
        => idx = 1 /\ current_state = fsm.initial_state /\ outputs = <<>>
    /\ (RunDone /\ call.input_sequence = <<>>)
        => /\ pc = "returned"
           /\ ret = IF call.collect_outputs
                    THEN <<fsm.initial_state,
                           <<get_output(fsm, fsm.initial_state, None)>> >>
                    ELSE <<fsm.initial_state>>

\* An empty run that collected the one Moore output of the initial state.
C2_Witness ==
    /\ RunReturned
    /\ call.input_sequence = <<>>
    /\ call.collect_outputs
    /\ ret = <<"Locked", <<"Red">> >>

(* C3.  A successful collecting run over N symbols returns a trace of      *)
(* exactly N+1 elements, whatever outputs are configured.                  *)
C3_TraceLength ==
    (RunReturned /\ call.collect_outputs)
        => Len(ret[2]) = Len(call.input_sequence) + 1

\* A collecting run over two symbols on a machine with no outputs at all.
C3_Witness ==
    /\ RunReturned
    /\ call.collect_outputs
    /\ Len(call.input_sequence) = 2
    /\ fsm.state_outputs = NoneC
    /\ fsm.transition_outputs = NoneC
    /\ Len(ret[2]) = 3

(* C4.  In a successful collecting run that visits q_0..q_N, element i of  *)
(* the trace is the output of (q_i, s_i), the state the step leaves and    *)
(* the symbol that causes it, and the last element is the output of q_N    *)
(* with no symbol; on a machine with Moore outputs only the trace is the   *)
(* Moore output of q_0, ..., q_N.                                          *)
C4_SampledBeforeTransition ==
    (RunReturned /\ call.collect_outputs)
        => LET s == call.input_sequence
               N == Len(s)
               trace == ret[2]
           IN /\ Len(trace) = N + 1
              /\ \A i \in 1..N :
                    trace[i] = get_output(fsm, StateAfter(fsm, s, i - 1), s[i])
              /\ trace[N + 1] = get_output(fsm, StateAfter(fsm, s, N), None)
              /\ (fsm.state_outputs # NoneC /\ fsm.transition_outputs = NoneC)
                    => \A i \in 1..(N + 1) :
                          trace[i] = DictGet(fsm.state_outputs[1],
                                             StateAfter(fsm, s, i - 1))

\* The lock/unlock machine with Moore outputs only, run over [Coin, Push]:
\* Locked, Unlocked, Locked give Red, Green, Red.
C4_Witness ==
    /\ LockMachine
    /\ fsm.transition_outputs = NoneC
    /\ RunReturned
    /\ call.collect_outputs
    /\ call.input_sequence = <<"Coin", "Push">>
    /\ ret = <<"Locked", <<"Red", "Green", "Red">> >>

(* C5.  With both state_outputs and transition_outputs configured and a    *)
(* symbol supplied, get_output returns the transition output of the pair   *)
(* when the pair has one and None when it has none, never the Moore        *)
(* output of the state.                                                    *)
C5_MealyPrecedence ==
    (/\ GetOutputReturned
     /\ call.input_symbol # None
     /\ fsm.state_outputs # NoneC
     /\ fsm.transition_outputs # NoneC)
        => ret[1] = DictGet(fsm.transition_outputs[1],
                            <<call.state, call.input_symbol>>)

C7_SymbolGivesNoneWithoutMealy ==
    (/\ GetOutputReturned
     /\ fsm.state_outputs # NoneC
     /\ fsm.transition_outputs = NoneC)
        => ret[1] = IF call.input_symbol # None
                    THEN None
                    ELSE DictGet(fsm.state_outputs[1], call.state)

(* C8.  With transition_outputs configured and no state_outputs,           *)
(* get_output without a symbol returns None for every state, and so the    *)
(* last element of every collected trace is None.                          *)
C8_MealyOnlyTrailingNone ==
    (fsm.exists /\ fsm.transition_outputs # NoneC /\ fsm.state_outputs = NoneC)
        => /\ (GetOutputReturned /\ call.input_symbol = None) => ret[1] = None
           /\ (RunReturned /\ call.collect_outputs)
                => ret[2][Len(ret[2])] = None

\* A Mealy-only machine ran [Coin] collecting: the click, then None.
C8_Witness ==
    /\ fsm.exists
    /\ fsm.state_outputs = NoneC
    /\ RunReturned
    /\ call.collect_outputs
    /\ call.input_sequence = <<"Coin">>
    /\ ret[2] = <<"Click", None>>

(* C9.  With neither state_outputs nor transition_outputs configured,      *)
(* get_output returns None for every state, with or without a symbol, and  *)
(* every element of every collected trace is None.                         *)
C9_NoOutputsAlwaysNone ==
    (fsm.exists /\ fsm.state_outputs = NoneC /\ fsm.transition_outputs = NoneC)
        => /\ GetOutputReturned => ret[1] = None
           /\ (RunReturned /\ call.collect_outputs)
                => \A i \in 1..Len(ret[2]) : ret[2][i] = None

\* get_output with a symbol gave None on a machine with no outputs.
C9_Witness ==
    /\ GetOutputReturned
    /\ call.input_symbol = "Push"
    /\ fsm.state_outputs = NoneC
    /\ fsm.transition_outputs = NoneC
    /\ ret[1] = None

(* C10.  When the symbol at some position of a run is not in the alphabet  *)
(* and every earlier step succeeded, the run raises the invalid-input-     *)
(* symbol error naming that symbol (the alphabet is checked before the     *)
(* transition lookup, so never the transition-not-defined error) and       *)
(* returns neither a state nor a trace.                                    *)
C10_InvalidSymbolAborts ==
    RunDone
        => \A k \in 1..Len(call.input_sequence) :
              (/\ call.input_sequence[k] \notin fsm.alphabet
               /\ Walkable(fsm, call.input_sequence, k - 1))
                 => /\ pc = "raised"
                    /\ err = <<"Invalid input symbol", call.input_sequence[k]>>
                    /\ ret = <<None>>

\* A run raised on its second symbol, Push, after a first step on Coin.
C10_Witness ==
    /\ RunDone
    /\ call.input_sequence = <<"Coin", "Push">>
    /\ Walkable(fsm, call.input_sequence, 1)
    /\ "Push" \notin fsm.alphabet
    /\ err = <<"Invalid input symbol", "Push">>

\* The first position of s at which the run fails: its symbol is outside the
\* alphabet or its pair has no transition entry.  0 when there is none.
FailingPositions(self, s) ==
    {k \in 1..Len(s) : s[k] \notin self.alphabet \/ StateAfter(self, s, k) = None}

FirstFailure(self, s) ==
    IF FailingPositions(self, s) = {}
    THEN 0
    ELSE CHOOSE k \in FailingPositions(self, s) :
            \A j \in FailingPositions(self, s) : k <= j

TransitionsCalled == call.op = "transitions" /\ pc \in {"returned", "raised"}

(* C11.  A transition map may be partial, even empty.  transitions(state,  *)
(* symbol) returns the entry of the pair when there is one and otherwise   *)
(* raises the transition-not-defined error naming the pair; in a run, a    *)
(* symbol of the alphabet whose pair with the current state has no entry   *)
(* ends the run with that error.                                           *)
C11_UndefinedTransitionRaises ==
    /\ TransitionsCalled
        => IF <<call.state, call.input_symbol>> \in DOMAIN fsm.transition_functions
           THEN /\ pc = "returned"
                /\ ret = <<fsm.transition_functions[<<call.state, call.input_symbol>>]>>
           ELSE /\ pc = "raised"
                /\ err = <<"Transition not defined", call.state, call.input_symbol>>
                /\ ret = <<None>>
    /\ RunDone
        => \A k \in 1..Len(call.input_sequence) :
              (/\ Walkable(fsm, call.input_sequence, k - 1)
               /\ call.input_sequence[k] \in fsm.alphabet
               /\ StateAfter(fsm, call.input_sequence, k) = None)
                 => /\ pc = "raised"
                    /\ err = <<"Transition not defined",
                               StateAfter(fsm, call.input_sequence, k - 1),
                               call.input_sequence[k]>>
                    /\ ret = <<None>>

\* A machine whose transition map lacks (Unlocked, Push) was constructed and
\* its run over [Coin, Push] raised on that pair after one step.
C11_Witness ==
    /\ RunDone
    /\ call.input_sequence = <<"Coin", "Push">>
    /\ "Push" \in fsm.alphabet
    /\ DOMAIN fsm.transition_functions = {<<"Locked", "Coin">>}
    /\ err = <<"Transition not defined", "Unlocked", "Push">>

\* The error a run over s raises at its first failing position k.
FailureAt(self, s, k) ==
    IF s[k] \notin self.alphabet
    THEN <<"Invalid input symbol", s[k]>>
    ELSE <<"Transition not defined", StateAfter(self, s, k - 1), s[k]>>

(* C12.  A run aborts at the first failing position: the error it raises   *)
(* is that of the smallest index whose symbol is outside the alphabet or   *)
(* whose pair has no transition.  The loop never reads a position past     *)
(* it, and the aborted run returns neither a final state nor a partial     *)
(* trace, collecting or not.                                               *)
C12_AbortsAtFirstFailure ==
    RunCalled
        => LET s == call.input_sequence
               k == FirstFailure(fsm, s)
           IN /\ (pc = "loop" /\ k > 0) => idx <= k
              /\ pc = "returned" => k = 0
              /\ pc = "raised"
                    => /\ k > 0
                       /\ err = FailureAt(fsm, s, k)
                       /\ ret = <<None>>
                       /\ outputs = <<>>

\* A collecting run whose two symbols both fail raised on the first one.
C12_Witness ==
    /\ RunCalled
    /\ pc = "raised"
    /\ call.collect_outputs
    /\ FailingPositions(fsm, call.input_sequence) = {1, 2}
    /\ err = FailureAt(fsm, call.input_sequence, 1)

(* C17.  On an engine built from a validated definition the current state  *)
(* of a run is a member of states at every step, and so is the state a     *)
(* run returns; the invalid-state error of the loop is never raised.       *)
C17_CurrentStateAlwaysValid ==
    RunCalled
        => /\ pc = "loop" => current_state \in fsm.states
           /\ pc = "returned" => ret[1] \in fsm.states
           /\ pc = "raised" => err[1] # "Invalid state"

\* A run of two steps returned on a machine whose states are not every
\* state a caller could name: the state check passed twice.
C17_Witness ==
    /\ RunReturned
    /\ Len(call.input_sequence) = 2
    /\ fsm.states = {"Locked"}
    /\ ret[1] = "Locked"

(* C18.  transitions does not check its arguments against states or        *)
(* alphabet: called with a state outside states or a symbol outside the    *)
(* alphabet it raises the transition-not-defined error naming the pair,    *)
(* never returns a state and never raises another error.                   *)
C18_TransitionsOutsideSetsRaises ==
    (/\ TransitionsCalled
     /\ (call.state \notin fsm.states \/ call.input_symbol \notin fsm.alphabet))
        => /\ pc = "raised"
           /\ err = <<"Transition not defined", call.state, call.input_symbol>>
           /\ ret = <<None>>

\* transitions("Unlocked", "Coin") raised on a machine without that state.
C18_Witness ==
    /\ TransitionsCalled
    /\ fsm.states = {"Locked"}
    /\ "Coin" \in fsm.alphabet
    /\ call.state = "Unlocked"
    /\ call.input_symbol = "Coin"
    /\ err = <<"Transition not defined", "Unlocked", "Coin">>

\* A definition without its final_states.
WithoutFinalStates(self) ==
    [states |-> self.states,
     alphabet |-> self.alphabet,
     transition_functions |-> self.transition_functions,
     initial_state |-> self.initial_state,
     state_outputs |-> self.state_outputs,
     transition_outputs |-> self.transition_outputs]

\* The outcome of run(s, collect) as a function of a definition without
\* final_states: the error of the first failing position, or else the folded
\* state with, when collecting, the outputs of the pairs met and of the end.
RunOutcome(core, s, collect) ==
    LET N == Len(s)
        k == FirstFailure(core, s)
    IN IF k > 0
       THEN [pc |-> "raised", ret |-> <<None>>, err |-> FailureAt(core, s, k)]
       ELSE [pc |-> "returned",
             err |-> <<None>>,
             ret |-> IF collect
                     THEN <<StateAfter(core, s, N),
                            [i \in 1..(N + 1) |->
                                IF i <= N
                                THEN get_output(core, StateAfter(core, s, i - 1), s[i])
                                ELSE get_output(core, StateAfter(core, s, N), None)]>>
                     ELSE <<StateAfter(core, s, N)>>]

\* What the caller of the last operation observes.
Observed == [pc |-> pc, ret |-> ret, err |-> err]

(* C19.  run does not consult final_states: whatever final_states a        *)
(* definition has (any choice, or None), run gives, for every input        *)
(* sequence, the result, trace or error that is a function of the rest of  *)
(* the definition alone, so two definitions that differ only in            *)
(* final_states give the same.                                             *)
C19_FinalStatesNotConsulted ==
    RunDone
        => \A f \in FinalStateChoices :
              (f = NoneC \/ f[1] \subseteq fsm.states)
                => Observed =
                     RunOutcome(WithoutFinalStates([fsm EXCEPT !.final_states = f]),
                                call.input_sequence, call.collect_outputs)

\* A machine whose only final state is Unlocked returned Locked from a run
\* of one step, as the machine without final states does.
C19_Witness ==
    /\ RunReturned
    /\ fsm.final_states = Some({"Unlocked"})
    /\ Len(call.input_sequence) = 1
    /\ ret[1] = "Locked"

-----------------------------------------------------------------------------
(* The six invariants of a definition, and what breaks each.               *)

\* 1: what the transition map names as a source or a target outside states.
UnknownTransitionStates(d) ==
    {<<"State in transition not in states set", key[1]>> :
        key \in {k \in DOMAIN d.transition_functions : k[1] \notin d.states}}
    \cup
    {<<"Next state not in states set", d.transition_functions[key]>> :
        key \in {k \in DOMAIN d.transition_functions :
                    d.transition_functions[k] \notin d.states}}

\* 2: the symbols of transition keys outside the alphabet.
UnknownTransitionSymbols(d) ==
    {<<"Symbol not in alphabet", key[2]>> :
        key \in {k \in DOMAIN d.transition_functions : k[2] \notin d.alphabet}}

\* 3: the initial state, when outside states.
UnknownInitialState(d) ==
    IF d.initial_state \in d.states
    THEN {}
    ELSE {<<"Initial state not in states set", d.initial_state>>}

\* 4: the final states outside states.
UnknownFinalStates(d) ==
    IF d.final_states = NoneC
    THEN {}
    ELSE {<<"Final state not in states set", s>> : s \in d.final_states[1] \ d.states}

\* 5: the keys of state_outputs outside states.
UnknownOutputStates(d) ==
    IF d.state_outputs = NoneC
    THEN {}
    ELSE {<<"State in state_outputs not in states set", s>> :
            s \in (DOMAIN d.state_outputs[1]) \ d.states}

\* 6: the states and symbols of transition_outputs keys outside their sets.
UnknownOutputKeys(d) ==
    IF d.transition_outputs = NoneC
    THEN {}
    ELSE {<<"State in transition_outputs not in states set", key[1]>> :
            key \in {k \in DOMAIN d.transition_outputs[1] : k[1] \notin d.states}}
         \cup
         {<<"Symbol in transition_outputs not in alphabet", key[2]>> :
            key \in {k \in DOMAIN d.transition_outputs[1] : k[2] \notin d.alphabet}}

\* What breaks invariant i of d, each with the error that names it.
Violations(d, i) ==
    CASE i = 1 -> UnknownTransitionStates(d)
      [] i = 2 -> UnknownTransitionSymbols(d)
      [] i = 3 -> UnknownInitialState(d)
      [] i = 4 -> UnknownFinalStates(d)
      [] i = 5 -> UnknownOutputStates(d)
      [] i = 6 -> UnknownOutputKeys(d)

Violated(d) == {i \in 1..6 : Violations(d, i) # {}}

Constructed == args # NoneC

(* C13.  For arguments with non-empty states and alphabet, FSM(...)        *)
(* succeeds if and only if the six invariants hold.                        *)
C13_ConstructionIffInvariants ==
    (/\ Constructed
     /\ args[1].states # {}
     /\ args[1].alphabet # {})
        => (fsm.exists <=> Violated(args[1]) = {})

(* C13, amended.  For arguments with non-empty states and alphabet and an  *)
(* initial state that is not the empty string, FSM(...) succeeds if and    *)
(* only if the six invariants hold.                                        *)
C13_ConstructionIffInvariantsNonEmptyInitial ==
    (/\ Constructed
     /\ args[1].states # {}
     /\ args[1].alphabet # {}
     /\ args[1].initial_state # "")
        => (fsm.exists <=> Violated(args[1]) = {})

\* An engine was built from arguments with transitions, final states and
\* both output maps, none of them empty.
C13_Witness ==
    /\ fsm.exists
    /\ DOMAIN args[1].transition_functions # {}
    /\ TruthySet(args[1].final_states)
    /\ TruthyDict(args[1].state_outputs)
    /\ TruthyDict(args[1].transition_outputs)

(* C14.  When arguments (with non-empty states and alphabet) break exactly *)
(* one of the six invariants, FSM(...) fails with the error of that        *)
(* invariant, naming a value that breaks it.                               *)
C14_SingleViolationReported ==
    (/\ Constructed
     /\ args[1].states # {}
     /\ args[1].alphabet # {})
        => \A i \in 1..6 :
              Violated(args[1]) = {i}
                => ~fsm.exists /\ raised_init \in Violations(args[1], i)

(* C14, amended.  The same, for arguments whose initial state is not the   *)
(* empty string.                                                           *)
C14_SingleViolationReportedNonEmptyInitial ==
    (/\ Constructed
     /\ args[1].states # {}
     /\ args[1].alphabet # {}
     /\ args[1].initial_state # "")
        => \A i \in 1..6 :
              Violated(args[1]) = {i}
                => ~fsm.exists /\ raised_init \in Violations(args[1], i)

\* Of two final states one is unknown, nothing else is wrong, and the error
\* names the unknown one.
C14_Witness ==
    /\ Constructed
    /\ args[1].states = {"Locked"}
    /\ args[1].initial_state = "Locked"
    /\ args[1].final_states = Some({"", "Locked"})
    /\ Violated(args[1]) = {4}
    /\ raised_init = <<"Final state not in states set", "">>

(* C15.  FSM(...) fails when states is empty and when alphabet is empty.   *)
(* An empty or absent transitions, final_states, state_outputs or          *)
(* transition_outputs never makes it fail: no error is raised about an     *)
(* empty or absent one, and with all four empty or absent and the initial  *)
(* state a non-empty member of states the construction succeeds.           *)
C15_EmptinessConstraints ==
    Constructed
        => LET d == args[1]
               NoTransitions == DOMAIN d.transition_functions = {}
               NoFinals == ~TruthySet(d.final_states)
               NoStateOutputs == ~TruthyDict(d.state_outputs)
               NoTransitionOutputs == ~TruthyDict(d.transition_outputs)
           IN /\ (d.states = {} \/ d.alphabet = {})
                    => /\ ~fsm.exists
                       /\ raised_init[1] = "ValidationError"
                       /\ (d.states = {} <=> "states" \in raised_init[2])
                       /\ (d.alphabet = {} <=> "alphabet" \in raised_init[2])
              /\ NoTransitions
                    => raised_init[1] \notin {"State in transition not in states set",
                                              "Next state not in states set",
                                              "Symbol not in alphabet"}
              /\ NoFinals => raised_init[1] # "Final state not in states set"
              /\ NoStateOutputs
                    => raised_init[1] # "State in state_outputs not in states set"
              /\ NoTransitionOutputs
                    => raised_init[1] \notin
                          {"State in transition_outputs not in states set",
                           "Symbol in transition_outputs not in alphabet"}
              /\ (/\ NoTransitions /\ NoFinals /\ NoStateOutputs /\ NoTransitionOutputs
                  /\ d.states # {} /\ d.alphabet # {}
                  /\ d.initial_state # "" /\ d.initial_state \in d.states)
                    => fsm.exists

\* An engine was built with an empty transition map, an empty set of final
\* states, an empty state_outputs and no transition_outputs.
C15_Witness ==
    /\ fsm.exists
    /\ DOMAIN args[1].transition_functions = {}
    /\ args[1].final_states = Some({})
    /\ args[1].state_outputs # NoneC
    /\ ~TruthyDict(args[1].state_outputs)
    /\ args[1].transition_outputs = NoneC

(* C16.  Determinism.  A call of run finishes with the outcome -- the      *)
(* returned state and trace, or the error -- that any earlier call of run  *)
(* on the same engine with the same input sequence and collect_outputs     *)
(* finished with, whatever calls of run were made in between; and a call   *)
(* of run leaves the engine as it found it.                                *)
C16_RepeatedRunsAgree ==
    /\ (RunDone /\ memo # NoneC /\ memo[1].call = call)
          => /\ memo[1].pc = pc
             /\ memo[1].ret = ret
             /\ memo[1].err = err
    /\ fsm.exists => fsm = NewFSM(args[1])

\* The run over [Coin, Coin] returned a second time, collecting, with the
\* trace remembered from the first time, on a machine where the first Coin
\* leaves the initial state and the second one does not come back.
C16_Witness ==
    /\ RunReturned
    /\ memo # NoneC
    /\ memo[1].call = call
    /\ call.input_sequence = <<"Coin", "Coin">>
    /\ call.collect_outputs
    /\ ret[1] = "Unlocked"
    /\ memo[1].ret = ret
    /\ memo[1].ret[2] = <<"Click", None, "Green">>

(* C20.  Calls of run made by two threads on one engine, their steps       *)
(* interleaved in any order, each finish with the outcome the same call    *)
(* has when it is executed alone: the error, or the final state and trace, *)
(* that the engine's definition gives for the call's own input sequence.   *)
(* While both are in their loops each thread's current state and trace     *)
(* are those of its own input sequence read so far.                        *)
C20_ConcurrentRunsIsolated ==
    /\ RunDone
          => Observed = RunOutcome(WithoutFinalStates(fsm), call.input_sequence,
                                   call.collect_outputs)
    /\ (other.call.op = "run" /\ other.pc \in {"returned", "raised"})
          => [pc |-> other.pc, ret |-> other.ret, err |-> other.err]
                = RunOutcome(WithoutFinalStates(fsm), other.call.input_sequence,
                             other.call.collect_outputs)
    /\ (RunCalled /\ pc = "loop")
          => /\ current_state = StateAfter(fsm, call.input_sequence, idx - 1)
             /\ Len(outputs) = IF call.collect_outputs THEN idx - 1 ELSE 0
    /\ other.pc = "loop"
          => /\ other.current_state
                    = StateAfter(fsm, other.call.input_sequence, other.idx - 1)
             /\ Len(other.outputs)
                    = IF other.call.collect_outputs THEN other.idx - 1 ELSE 0

\* The first thread returned from its run over [Coin, Push] in Locked while
\* the second, which called run over [Coin, Coin] when the first was inside
\* its loop, has made one step and stands in Unlocked.
C20_Witness ==
    /\ RunReturned
    /\ call.input_sequence = <<"Coin", "Push">>
    /\ call.collect_outputs
    /\ ret[1] = "Locked"
    /\ other.pc = "loop"
    /\ other.during
    /\ other.call.input_sequence = <<"Coin", "Coin">>
    /\ other.idx = 2
    /\ other.current_state = "Unlocked"

(* C22.  Whenever transition_outputs is configured and a symbol is         *)
(* supplied, get_output never consults the Moore outputs, whatever         *)
(* state_outputs is: it returns the transition output of the pair, or None *)
(* when the pair has none.  An empty transition_outputs mapping is         *)
(* configured too: with it get_output(state, symbol) returns None, not     *)
(* state_outputs[state].                                                   *)
C22_EmptyMealyNeverConsultsMoore ==
    (/\ GetOutputReturned
     /\ call.input_symbol # None
     /\ fsm.transition_outputs # NoneC)
        => /\ ret[1] = DictGet(fsm.transition_outputs[1],
                               <<call.state, call.input_symbol>>)
           /\ DOMAIN fsm.transition_outputs[1] = {} => ret[1] = None

\* The place of an error in the validator's order of checks: the transition
\* entries, the initial state, final_states, state_outputs, transition_outputs.
CheckOf(e) ==
    CASE e[1] \in {"State in transition not in states set",
                   "Next state not in states set",
                   "Symbol not in alphabet"} -> 1
      [] e[1] = "Initial state not in states set" -> 2
      [] e[1] = "Final state not in states set" -> 3
      [] e[1] = "State in state_outputs not in states set" -> 4
      [] e[1] \in {"State in transition_outputs not in states set",
                   "Symbol in transition_outputs not in alphabet"} -> 5
      [] OTHER -> 0

\* The checks, in that order, that find something wrong with d.
FailingChecks(d) ==
    {c \in 1..5 :
        CASE c = 1 -> Violations(d, 1) \cup Violations(d, 2) # {}
          [] c = 2 -> Violations(d, 3) # {}
          [] c = 3 -> Violations(d, 4) # {}
          [] c = 4 -> Violations(d, 5) # {}
          [] c = 5 -> Violations(d, 6) # {}}

\* e is what the three checks of the transition entry key report first.
FirstOfEntry(d, key, e) ==
    LET next_state == d.transition_functions[key]
    IN \/ /\ key[1] \notin d.states
          /\ e = <<"State in transition not in states set", key[1]>>
       \/ /\ key[1] \in d.states
          /\ next_state \notin d.states
          /\ e = <<"Next state not in states set", next_state>>
       \/ /\ key[1] \in d.states
          /\ next_state \in d.states
          /\ key[2] \notin d.alphabet
          /\ e = <<"Symbol not in alphabet", key[2]>>

\* e is what the two checks of the transition_outputs key report first.
FirstOfOutputKey(d, key, e) ==
    \/ /\ key[1] \notin d.states
       /\ e = <<"State in transition_outputs not in states set", key[1]>>
    \/ /\ key[1] \in d.states
       /\ key[2] \notin d.alphabet
       /\ e = <<"Symbol in transition_outputs not in alphabet", key[2]>>

\* The arguments passed the field constraints, so that the validator ran.
ValidatorRan ==
    /\ Constructed
    /\ args[1].states # {}
    /\ args[1].alphabet # {}
    /\ args[1].initial_state # ""

(* C23.  The validator reports the first violation in its order of checks: *)
(* the transition entries (per entry the source state, then the next       *)
(* state, then the symbol), the initial state, final_states, the keys of   *)
(* state_outputs, the keys of transition_outputs (state before symbol).    *)
(* When several invariants are broken the error raised belongs to the      *)
(* earliest check that finds a violation, and within an entry or a key to  *)
(* the earliest of its checks.                                             *)
C23_FirstViolationInCheckOrder ==
    (ValidatorRan /\ FailingChecks(args[1]) # {})
        => LET d == args[1]
           IN /\ ~fsm.exists
              /\ CheckOf(raised_init) \in FailingChecks(d)
              /\ \A c \in FailingChecks(d) : CheckOf(raised_init) <= c
              /\ CheckOf(raised_init) = 1
                    => \E key \in DOMAIN d.transition_functions :
                          FirstOfEntry(d, key, raised_init)
              /\ CheckOf(raised_init) = 5
                    => \E key \in DOMAIN d.transition_outputs[1] :
                          FirstOfOutputKey(d, key, raised_init)

\* Arguments with an unknown symbol in a transition key, an unknown initial
\* state, an unknown final state and an unknown state in both output maps:
\* the error is the one of the transition entry.
C23_Witness ==
    /\ ValidatorRan
    /\ Violated(args[1]) = {2, 3, 4, 5, 6}
    /\ raised_init = <<"Symbol not in alphabet", "Push">>

(* C21.  Construction is all-or-nothing and validation comes before the    *)
(* engine: when a check fails FSM(...) raises before any field is assigned *)
(* to self, so that no engine exists then; a field is assigned only after  *)
(* the whole validation has passed; and every engine that exists holds     *)
(* all seven fields of a definition that satisfies the six invariants.     *)
C21_ValidationPrecedesEngine ==
    /\ raised_init # <<None>>
          => /\ ~fsm.exists
             /\ init.pc = "raised"
             /\ DOMAIN init.self = {}
    /\ (Constructed /\ Violated(args[1]) # {})
          => /\ ~fsm.exists
             /\ DOMAIN init.self = {}
             /\ init.pc \in {"model", "validate", "raised"}
    /\ DOMAIN init.self # {}
          => /\ init.fsm_model = args
             /\ Violated(args[1]) = {}
             /\ \A f \in DOMAIN init.self : init.self[f] = args[1][f]
    /\ fsm.exists
          => /\ DOMAIN fsm = {FieldOrder[i] : i \in 1..Len(FieldOrder)} \cup {"exists"}
             /\ Violated(fsm) = {}
             /\ fsm = NewFSM(args[1])

\* Both ends: an engine returned after its seven assignments, with
\* transitions, final states and outputs in it.
C21_Witness ==
    /\ fsm.exists
    /\ init.pc = "done"
    /\ DOMAIN fsm.transition_functions # {}
    /\ TruthySet(fsm.final_states)
    /\ TruthyDict(fsm.state_outputs)
    /\ TruthyDict(fsm.transition_outputs)

(* C24.  The definition is immutable after construction: no step of run    *)
(* (collecting or not, returning or raising), no call of transitions,      *)
(* get_output, _is_valid_state or _is_valid_input changes a field of the   *)
(* engine, and no step after the FSMModel was built, the call of           *)
(* validate_transitions included, changes a field of the model.            *)
C24_DefinitionImmutable ==
    [][/\ fsm.exists => fsm' = fsm
       /\ init.fsm_model # NoneC => init'.fsm_model = init.fsm_model]_vars

\* A collecting run raised on an engine that is still what the validated
\* model gave it.
C24_Witness ==
    /\ RunDone
    /\ pc = "raised"
    /\ call.collect_outputs
    /\ Len(call.input_sequence) = 2
    /\ init.fsm_model = args
    /\ fsm = NewFSM(init.fsm_model[1])

(* C25.  run terminates on an input sequence of length N.  The loop starts *)
(* at the first position and every iteration that goes on moves to the     *)
(* next one, so that no position is read twice; a run returns after        *)
(* exactly N iterations and raises within its first N; and a run that is   *)
(* in its loop eventually leaves it.                                       *)
C25_RunTerminates ==
    /\ [][/\ (pc # "loop" /\ pc' = "loop") => idx' = 1
          /\ (pc = "loop" /\ pc' = "loop")
                => /\ idx' = idx + 1
                   /\ idx <= Len(call.input_sequence)
                   /\ call' = call
          /\ (pc = "loop" /\ pc' = "returned") => idx = Len(call.input_sequence) + 1
          /\ (pc = "loop" /\ pc' = "raised") => idx <= Len(call.input_sequence)]_vars
    /\ (pc = "loop") ~> (pc \in {"returned", "raised"})

\* A run over two symbols returned in Unlocked on a machine that has no
\* transition for its other pairs.
C25_Witness ==
    /\ RunReturned
    /\ call.input_sequence = <<"Coin", "Coin">>
    /\ ~call.collect_outputs
    /\ DOMAIN fsm.transition_functions = {<<"Locked", "Coin">>, <<"Unlocked", "Coin">>}
    /\ ret = <<"Unlocked">>

\* The caller remembers a run over the same input sequence as the one that
\* just finished, made with the other value of collect_outputs.
SameRunOtherwiseCollected ==
    /\ RunDone
    /\ memo # NoneC
    /\ memo[1].call.input_sequence = call.input_sequence
    /\ memo[1].call.collect_outputs # call.collect_outputs

(* C26.  collect_outputs does not influence the progress of a run: over    *)
(* the same input sequence on the same engine, run with collect_outputs    *)
(* returns if and only if run without it returns, the state in the pair    *)
(* it returns is the state returned without collecting, and when they      *)
(* raise they raise the same error.                                        *)
C26_CollectingDoesNotSteer ==
    SameRunOtherwiseCollected
        => /\ memo[1].pc = pc
           /\ memo[1].err = err
           /\ memo[1].ret[1] = ret[1]
           /\ pc = "returned"
                => /\ Len(IF call.collect_outputs THEN ret ELSE memo[1].ret) = 2
                   /\ Len(IF call.collect_outputs THEN memo[1].ret ELSE ret) = 1

\* [Coin, Push] returned Locked without collecting and returns the pair of
\* Locked and a trace of three outputs when collecting.
C26_Witness ==
    /\ SameRunOtherwiseCollected
    /\ call.input_sequence = <<"Coin", "Push">>
    /\ call.collect_outputs
    /\ pc = "returned"
    /\ memo[1].ret = <<"Locked">>
    /\ ret[1] = "Locked"
    /\ Len(ret[2]) = 3

\* The transition map of the engine has an entry for every pair of a state
\* and a symbol of the alphabet.
TotalMap == (fsm.states \X fsm.alphabet) \subseteq DOMAIN fsm.transition_functions

(* C27.  On an engine whose validated transition map is total over         *)
(* states x alphabet, run returns for every input sequence whose symbols   *)
(* are all in the alphabet, and the only error a run raises is the         *)
(* invalid-input-symbol error, for the first symbol outside the alphabet.  *)
C27_TotalMapNeverStuck ==
    (RunDone /\ TotalMap)
        => LET s == call.input_sequence
               outside == {k \in 1..Len(s) : s[k] \notin fsm.alphabet}
           IN /\ outside = {} => (pc = "returned" /\ err = <<None>>)
              /\ pc = "raised"
                    => /\ outside # {}
                       /\ err[1] = "Invalid input symbol"
                       /\ \E k \in outside :
                            /\ err[2] = s[k]
                            /\ \A j \in outside : k <= j

\* On a total machine of two states and two symbols the run over
\* [Coin, Push] returned, having visited both states.
C27_Witness ==
    /\ RunReturned
    /\ TotalMap
    /\ fsm.states = {"Locked", "Unlocked"}
    /\ fsm.alphabet = {"Coin", "Push"}
    /\ call.input_sequence = <<"Coin", "Push">>
    /\ StateAfter(fsm, call.input_sequence, 1) = "Unlocked"
    /\ ret = <<"Locked">>

====
